---- MODULE Spec2Model ----
(***************************************************************************)
(* Model of assets/referral-tracker.js (class ReferralTracker): capture of *)
(* ?ref= / ?order_id= into localStorage, and reconciliation of the stored  *)
(* record against the cart attributes of the remote cart service.          *)
(***************************************************************************)
EXTENDS Integers, Sequences, FiniteSets, TLC

(* ------------------------------ bounds -------------------------------- *)
\* invocations of syncReferralToCart explored (one per page load included)
MaxTriggers == 2
(* ------------------------- program constants -------------------------- *)
REFERRAL_PARAM == "ref"
ORDER_ID_PARAM == "order_id"
CART_ATTRIBUTE_KEY == "Shared_Sweeps_Referred_By"
ORDER_ID_ATTRIBUTE_KEY == "Shared_Sweeps_Order_ID"
LANDING_PAGE_ATTRIBUTE_KEY == "Shared_Sweeps_Referral_Landing_Page"
CAPTURED_AT_ATTRIBUTE_KEY == "Shared_Sweeps_Referral_Captured_At"

AttributeKeys ==
  {CART_ATTRIBUTE_KEY, ORDER_ID_ATTRIBUTE_KEY,
   LANDING_PAGE_ATTRIBUTE_KEY, CAPTURED_AT_ATTRIBUTE_KEY}

(* ------------------------- JavaScript values -------------------------- *)
\* JavaScript null and undefined, kept apart from every string the program
\* handles (the empty string included).
Null == "<null>"
Undefined == "<undefined>"

\* JavaScript truthiness of a string-or-null-or-undefined value.
Truthy(v) == v \notin {Null, Undefined, ""}

\* a || b
Or(a, b) == IF Truthy(a) THEN a ELSE b

(* ------------------------------ inputs -------------------------------- *)
\* window.location.search, as the list of its name=value pairs in order.
Searches ==
  { <<>>,
    << <<"ref", "store1">> >>,
    << <<"order_id", "99">> >>,
    << <<"ref", "">> >>,
    << <<"ref", "">>, <<"order_id", "99">> >>,
    << <<"utm", "x">>, <<"ref", "store2">>, <<"ref", "store1">> >> }

\* A page view: window.location.pathname, and what new Date().toISOString()
\* gives during it.
Visits ==
  { [pathname |-> "/", clock |-> "2026-01-05T10:00:00.000Z"],
    [pathname |-> "/products/a", clock |-> "2026-01-06T11:30:00.000Z"] }

\* URLSearchParams.get(name): the first value given for name, null if none.
RECURSIVE URLSearchParamsGet(_, _)
URLSearchParamsGet(search, name) ==
  IF search = <<>> THEN Null
  ELSE IF Head(search)[1] = name THEN Head(search)[2]
  ELSE URLSearchParamsGet(Tail(search), name)


(* ------------------------- localStorage content ----------------------- *)
\* A value that reads as "no object": what `existingData = ... || {}` and a
\* null referralData give on field access.
EmptyObject ==
  [code |-> Undefined, orderId |-> Undefined,
   capturedAt |-> Undefined, landingPage |-> Undefined]

\* localStorage[STORAGE_KEY]: no item, an item that is not JSON, or the JSON
\* text of an object (kept as the object it parses to).
NoItem == [kind |-> "none", val |-> EmptyObject]
Garbage == [kind |-> "garbage", val |-> EmptyObject]
JSONstringify(data) == [kind |-> "json", val |-> data]

\* JSON.parse: throws on text that is not JSON.
JSONparse(item) ==
  IF item.kind = "json" THEN [threw |-> FALSE, isNull |-> FALSE, val |-> item.val]
  ELSE [threw |-> TRUE, isNull |-> TRUE, val |-> EmptyObject]

\* the value an operation gives when it returns null
NullResult == [threw |-> FALSE, isNull |-> TRUE, val |-> EmptyObject]

\* getStoredReferral without its try/catch: the throw of JSON.parse escapes.
getStoredReferral_NoCatch(item) ==
  IF item.kind = "none" THEN NullResult ELSE JSONparse(item)

\* getStoredReferral(): stored ? JSON.parse(stored) : null, and null when
\* anything in it throws.
getStoredReferral(item) ==
  IF item.kind = "none" THEN NullResult
  ELSE IF JSONparse(item).threw THEN NullResult
  ELSE JSONparse(item)

\* getReferralCode(): data?.code || null
getReferralCode(item) ==
  IF getStoredReferral(item).threw THEN Undefined
  ELSE Or(getStoredReferral(item).val.code, Null)

\* storeReferral as it was before order ids were tracked: the record is built
\* from the referral alone, nothing stored is carried over.
storeReferral_NoMerge(item, referral, orderId, clock, pathname, setItemOk) ==
  IF ~setItemOk THEN item
  ELSE JSONstringify([code |-> Or(referral, Null), orderId |-> Or(orderId, Null),
                      capturedAt |-> clock, landingPage |-> pathname])

\* storeReferral with the stored order id not carried over.
storeReferral_OrderIdNotKept(item, referral, orderId, clock, pathname, setItemOk) ==
  LET existing == getStoredReferral(item)
  IN  IF existing.threw \/ ~setItemOk THEN item
      ELSE JSONstringify([code |-> Or(referral, Or(existing.val.code, Null)),
                          orderId |-> Or(orderId, Null),
                          capturedAt |-> clock, landingPage |-> pathname])

\* storeReferral(referral, orderId): the content of localStorage afterwards.
\* setItemOk is whether localStorage.setItem succeeds (it throws when the
\* quota is exceeded or storage is disabled); every throw inside is caught.
storeReferral(item, referral, orderId, clock, pathname, setItemOk) ==
  LET existing == getStoredReferral(item)
      data == [code |-> Or(referral, Or(existing.val.code, Null)),
               orderId |-> Or(orderId, Or(existing.val.orderId, Null)),
               capturedAt |-> clock,
               landingPage |-> pathname]
  IN  IF existing.threw \/ ~setItemOk THEN item ELSE JSONstringify(data)

\* storeReferral without its try/catch: a throw of setItem escapes.
storeReferralThrows_NoCatch(item, setItemOk) == ~setItemOk

\* Whether storeReferral throws to its caller: its whole body is inside
\* try { ... } catch, so neither a throw of getStoredReferral nor one of
\* localStorage.setItem escapes.
storeReferralThrows(item, setItemOk) ==
  LET thrown == getStoredReferral(item).threw \/ ~setItemOk
      caught == TRUE
  IN  thrown /\ ~caught

\* captureReferralFromURL without its  if (referral || orderId)  guard.
captureReferralFromURL_NoGuard(item, search, clock, pathname, setItemOk) ==
  storeReferral(item, URLSearchParamsGet(search, REFERRAL_PARAM),
                URLSearchParamsGet(search, ORDER_ID_PARAM), clock, pathname, setItemOk)

\* captureReferralFromURL(): the content of localStorage afterwards.
captureReferralFromURL(item, search, clock, pathname, setItemOk) ==
  LET referral == URLSearchParamsGet(search, REFERRAL_PARAM)
      orderId == URLSearchParamsGet(search, ORDER_ID_PARAM)
  IN  IF Truthy(referral) \/ Truthy(orderId)
      THEN storeReferral(item, referral, orderId, clock, pathname, setItemOk)
      ELSE item

\* clearReferral removing another key than STORAGE_KEY.
clearReferral_WrongKey(item) == item

\* clearReferral(): localStorage.removeItem(STORAGE_KEY)
clearReferral(item) == NoItem

(* --------------------------- the cart service ------------------------- *)
\* The cart as the remote service holds it: cart.attributes may be missing
\* from the JSON, and each attribute key may be missing from the mapping.
NoAttributes == [k \in AttributeKeys |-> Undefined]
EmptyCart(hasAttributes) ==
  [hasAttributes |-> hasAttributes, attributes |-> NoAttributes]

\* POST /cart/update.js {attributes}: the keys sent replace the cart's.
CartUpdate(c, attributes) ==
  [hasAttributes |-> TRUE,
   attributes |-> [k \in AttributeKeys |->
                     IF attributes[k] # Undefined THEN attributes[k]
                     ELSE c.attributes[k]]]

\* What GET /cart.js answers when its body is JSON: the cart with a success
\* status, or an error object without attributes with a non-success status.
FetchStatuses == {"ok", "error_json"}
CartResponse(status, c) ==
  [status |-> status, cart |-> IF status = "ok" THEN c ELSE EmptyCart(FALSE)]

(* --------------------------- syncReferralToCart ----------------------- *)
\* cart.attributes && cart.attributes[key] === value
AttributeIs(c, key, value) == c.hasAttributes /\ c.attributes[key] = value

\* referralMatches without its  !referralData.code ||  case.
referralMatches_NoUnsetCase(referralData, c) ==
  AttributeIs(c, CART_ATTRIBUTE_KEY, referralData.code)

referralMatches(referralData, c) ==
  ~Truthy(referralData.code)
    \/ AttributeIs(c, CART_ATTRIBUTE_KEY, referralData.code)

\* orderIdMatches looking the order id up under the referral code's key.
orderIdMatches_WrongKey(referralData, c) ==
  ~Truthy(referralData.orderId)
    \/ AttributeIs(c, CART_ATTRIBUTE_KEY, referralData.orderId)

orderIdMatches(referralData, c) ==
  ~Truthy(referralData.orderId)
    \/ AttributeIs(c, ORDER_ID_ATTRIBUTE_KEY, referralData.orderId)

\* The attributes object with the order id key written unconditionally.
BuildAttributes_AlwaysOrderId(referralData) ==
  [k \in AttributeKeys |->
     CASE k = LANDING_PAGE_ATTRIBUTE_KEY -> referralData.landingPage
       [] k = CAPTURED_AT_ATTRIBUTE_KEY -> referralData.capturedAt
       [] k = CART_ATTRIBUTE_KEY ->
            IF Truthy(referralData.code) THEN referralData.code ELSE Undefined
       [] k = ORDER_ID_ATTRIBUTE_KEY -> referralData.orderId]

\* The attributes object of the update request, as JSON.stringify sends it
\* (a key whose value is undefined is left out).
BuildAttributes(referralData) ==
  [k \in AttributeKeys |->
     CASE k = LANDING_PAGE_ATTRIBUTE_KEY -> referralData.landingPage
       [] k = CAPTURED_AT_ATTRIBUTE_KEY -> referralData.capturedAt
       [] k = CART_ATTRIBUTE_KEY ->
            IF Truthy(referralData.code) THEN referralData.code ELSE Undefined
       [] k = ORDER_ID_ATTRIBUTE_KEY ->
            IF Truthy(referralData.orderId) THEN referralData.orderId
            ELSE Undefined]

\* One invocation of syncReferralToCart. pc is where it stands:
\*   "fetch"   suspended on  await fetch('/cart.js')  or on the
\*             await cartResponse.json()  that follows it
\*   "update"  suspended on  await fetch('/cart/update.js', ...)
\*   "done"    returned;  "dead"  its page was unloaded while suspended;
\*   "orphan"  its page was unloaded with the update request on the wire.
\* fetches and updates count the requests it has issued. Its locals
\* (referralData, the attributes it sent) are gone once it has returned.
NotStarted ==
  [pc |-> "fetch", referralData |-> EmptyObject, attributes |-> NoAttributes,
   fetches |-> 0, updates |-> 0]

Returned(inv) ==
  [NotStarted EXCEPT !.pc = "done", !.fetches = inv.fetches, !.updates = inv.updates]

\* syncReferralToCart returning early when either field is unset.
StartInvocation_EitherUnsetGuard(item) ==
  LET referralData == getStoredReferral(item)
  IN  IF referralData.threw
           \/ referralData.isNull
           \/ (~Truthy(referralData.val.code) \/ ~Truthy(referralData.val.orderId))
      THEN [NotStarted EXCEPT !.pc = "done"]
      ELSE [NotStarted EXCEPT !.referralData = referralData.val, !.fetches = 1]

\* syncReferralToCart returning early only when there is no record at all.
StartInvocation_OnlyNullGuard(item) ==
  LET referralData == getStoredReferral(item)
  IN  IF referralData.threw \/ referralData.isNull
      THEN [NotStarted EXCEPT !.pc = "done"]
      ELSE [NotStarted EXCEPT !.referralData = referralData.val, !.fetches = 1]

\* syncReferralToCart() up to its first await.
StartInvocation(item) ==
  LET referralData == getStoredReferral(item)
  IN  IF referralData.threw
           \/ referralData.isNull
           \/ (~Truthy(referralData.val.code) /\ ~Truthy(referralData.val.orderId))
      THEN Returned(NotStarted)
      ELSE [NotStarted EXCEPT !.referralData = referralData.val, !.fetches = 1]

\* The continuation returning as soon as one of the two fields matches.
AfterCartJson_EitherMatches(inv, c) ==
  IF referralMatches(inv.referralData, c) \/ orderIdMatches(inv.referralData, c)
  THEN [pc |-> "done", referralData |-> EmptyObject, attributes |-> NoAttributes,
        fetches |-> inv.fetches, updates |-> inv.updates]
  ELSE [inv EXCEPT !.pc = "update",
                   !.attributes = BuildAttributes(inv.referralData),
                   !.updates = @ + 1]

\* The continuation also comparing the two metadata attributes.
AfterCartJson_AlsoComparesMetadata(inv, c) ==
  IF /\ referralMatches(inv.referralData, c)
     /\ orderIdMatches(inv.referralData, c)
     /\ AttributeIs(c, CAPTURED_AT_ATTRIBUTE_KEY, inv.referralData.capturedAt)
     /\ AttributeIs(c, LANDING_PAGE_ATTRIBUTE_KEY, inv.referralData.landingPage)
  THEN [pc |-> "done", referralData |-> EmptyObject, attributes |-> NoAttributes,
        fetches |-> inv.fetches, updates |-> inv.updates]
  ELSE [inv EXCEPT !.pc = "update",
                   !.attributes = BuildAttributes(inv.referralData),
                   !.updates = @ + 1]

\* The continuation after  await cartResponse.json()  resolved with c.
AfterCartJson(inv, c) ==
  IF referralMatches(inv.referralData, c) /\ orderIdMatches(inv.referralData, c)
  THEN Returned(inv)
  ELSE [inv EXCEPT !.pc = "update",
                   !.attributes = BuildAttributes(inv.referralData),
                   !.updates = @ + 1]

(* ------------------------------- state -------------------------------- *)
VARIABLES
  stored,     \* localStorage[STORAGE_KEY]
  cart,       \* the cart held by the remote service
  invs,       \* the invocations of syncReferralToCart so far, in order
  listening,  \* a page is loaded, with its 'cart:update' listener installed
  uncaught,   \* an exception or rejection escaped one of the handlers
  last        \* the step just taken: the invocation it belongs to, and for
              \* a page load the query string and whether setItem succeeded

vars == <<stored, cart, invs, listening, uncaught, last>>

StepOf(op, i) == [op |-> op, inv |-> i, search |-> <<>>, setItemOk |-> TRUE]

\* A browser profile that has never seen the script.
InitialStored == NoItem

InitWith(item) ==
  /\ stored = item
  /\ cart \in {EmptyCart(TRUE), EmptyCart(FALSE)}
  /\ invs = <<>>
  /\ listening = FALSE
  /\ uncaught = FALSE
  /\ last = StepOf("init", 0)

Init == InitWith(InitialStored)

\* Whether captureReferralFromURL calls storeReferral for this query string.
Captures(search) ==
  Truthy(URLSearchParamsGet(search, REFERRAL_PARAM))
    \/ Truthy(URLSearchParamsGet(search, ORDER_ID_PARAM))

\* Unloading the page: suspended invocations never resume.
Unload(inv) ==
  IF inv.pc = "fetch" THEN [Returned(inv) EXCEPT !.pc = "dead"]
  ELSE IF inv.pc = "update" THEN [inv EXCEPT !.pc = "orphan"]
  ELSE inv

\* init() calling syncReferralToCart before captureReferralFromURL.
PageLoad_SyncBeforeCapture(search, visit, setItemOk) ==
  /\ Len(invs) < MaxTriggers
  /\ LET after == captureReferralFromURL(stored, search, visit.clock,
                                         visit.pathname, setItemOk)
         unloaded == [i \in 1..Len(invs) |-> Unload(invs[i])]
     IN  /\ stored' = after
         /\ invs' = Append(unloaded, StartInvocation(stored))
         /\ listening' = TRUE
         /\ uncaught' = (uncaught \/ getStoredReferral(stored).threw)
  /\ last' = [StepOf("load", Len(invs) + 1) EXCEPT
                !.search = search,
                !.setItemOk = IF Captures(search) THEN setItemOk ELSE TRUE]
  /\ UNCHANGED cart

\* new ReferralTracker() on a page load: init() runs captureReferralFromURL,
\* setupCartListener and syncReferralToCart up to its first await.
\* A throw out of captureReferralFromURL ends init() there: no listener,
\* no startup syncReferralToCart.
PageLoad(search, visit, setItemOk) ==
  /\ Len(invs) < MaxTriggers
  /\ LET after == captureReferralFromURL(stored, search, visit.clock,
                                         visit.pathname, setItemOk)
         unloaded == [i \in 1..Len(invs) |-> Unload(invs[i])]
     IN  /\ stored' = after
         /\ IF Captures(search) /\ storeReferralThrows(stored, setItemOk)
            THEN /\ invs' = unloaded
                 /\ listening' = FALSE
                 /\ uncaught' = TRUE
            ELSE /\ invs' = Append(unloaded, StartInvocation(after))
                 /\ listening' = TRUE
                 /\ uncaught' = (uncaught \/ getStoredReferral(after).threw)
  /\ last' = [StepOf("load", Len(invs) + 1) EXCEPT
                !.search = search,
                !.setItemOk = IF Captures(search) THEN setItemOk ELSE TRUE]
  /\ UNCHANGED cart

\* window.ReferralTracker.clearReferral()
Clear ==
  /\ listening
  /\ stored' = clearReferral(stored)
  /\ last' = StepOf("clear", 0)
  /\ UNCHANGED <<cart, invs, listening, uncaught>>

\* A listener that drops the event while an earlier invocation is suspended.
CartChanged_Serialized ==
  /\ listening /\ Len(invs) < MaxTriggers
  /\ invs' = Append(invs,
                    IF \E i \in 1..Len(invs) : invs[i].pc \in {"fetch", "update"}
                    THEN Returned(NotStarted)
                    ELSE StartInvocation(stored))
  /\ uncaught' = (uncaught \/ getStoredReferral(stored).threw)
  /\ last' = StepOf("cart:update", Len(invs) + 1)
  /\ UNCHANGED <<stored, cart, listening>>

\* A 'cart:update' event reaches the listener, which calls syncReferralToCart.
CartChanged ==
  /\ listening /\ Len(invs) < MaxTriggers
  /\ invs' = Append(invs, StartInvocation(stored))
  /\ uncaught' = (uncaught \/ getStoredReferral(stored).threw)
  /\ last' = StepOf("cart:update", Len(invs) + 1)
  /\ UNCHANGED <<stored, cart, listening>>

\* A continuation that reads the stored record again after the fetch.
FetchResolve_Rereads(i, status) ==
  /\ invs[i].pc = "fetch"
  /\ status \in {"ok", "error_json"}
  /\ LET referralData == getStoredReferral(stored)
     IN  invs' = [invs EXCEPT ![i] =
                    IF referralData.threw \/ referralData.isNull
                    THEN Returned(invs[i])
                    ELSE AfterCartJson([invs[i] EXCEPT !.referralData = referralData.val],
                                       CartResponse(status, cart).cart)]
  /\ last' = StepOf("fetch_" \o status, i)
  /\ UNCHANGED <<stored, cart, listening, uncaught>>

\* fetch('/cart.js') resolves with a response whose body is JSON, and so does
\* cartResponse.json(): compare, and send the update on divergence. (Nothing
\* the invocation reads or writes changes between the two awaits, so they are
\* one step; the service answers with the cart as it is at this step.)
FetchResolve(i, status) ==
  /\ invs[i].pc = "fetch"
  /\ status \in {"ok", "error_json"}
  /\ invs' = [invs EXCEPT ![i] = AfterCartJson(invs[i], CartResponse(status, cart).cart)]
  /\ last' = StepOf("fetch_" \o status, i)
  /\ UNCHANGED <<stored, cart, listening, uncaught>>

\* A catch clause that calls fetch('/cart.js') again instead of giving up.
FetchReject_Retry(i) ==
  /\ invs[i].pc = "fetch"
  /\ invs' = [invs EXCEPT ![i].fetches = @ + 1]
  /\ last' = StepOf("fetch_reject", i)
  /\ UNCHANGED <<stored, cart, listening, uncaught>>

\* fetch('/cart.js') rejects (network failure): caught at the catch clause.
FetchReject(i) ==
  /\ invs[i].pc = "fetch"
  /\ invs' = [invs EXCEPT ![i] = Returned(invs[i])]
  /\ last' = StepOf("fetch_reject", i)
  /\ UNCHANGED <<stored, cart, listening, uncaught>>

\* fetch('/cart.js') resolves with a body that is not JSON, and
\* cartResponse.json() rejects: caught at the catch clause.
JsonReject(i) ==
  /\ invs[i].pc = "fetch"
  /\ invs' = [invs EXCEPT ![i] = Returned(invs[i])]
  /\ last' = StepOf("json_reject", i)
  /\ UNCHANGED <<stored, cart, listening, uncaught>>

\* A success branch that removes the stored record once it has been synced.
UpdateResolve_RemovesRecord(i, ok) ==
  /\ invs[i].pc = "update"
  /\ invs' = [invs EXCEPT ![i] = Returned(invs[i])]
  /\ cart' = IF ok THEN CartUpdate(cart, invs[i].attributes) ELSE cart
  /\ stored' = IF ok THEN clearReferral(stored) ELSE stored
  /\ last' = StepOf(IF ok THEN "update_ok" ELSE "update_not_ok", i)
  /\ UNCHANGED <<listening, uncaught>>

\* fetch('/cart/update.js') resolves: with response.ok the service has applied
\* the attributes, otherwise it has not.
UpdateResolve(i, ok) ==
  /\ invs[i].pc = "update"
  /\ invs' = [invs EXCEPT ![i] = Returned(invs[i])]
  /\ cart' = IF ok THEN CartUpdate(cart, invs[i].attributes) ELSE cart
  /\ last' = StepOf(IF ok THEN "update_ok" ELSE "update_not_ok", i)
  /\ UNCHANGED <<stored, listening, uncaught>>

\* fetch('/cart/update.js') rejects (network failure): caught. The request
\* may or may not have reached the service before the failure.
UpdateReject(i, applied) ==
  /\ invs[i].pc = "update"
  /\ invs' = [invs EXCEPT ![i] = Returned(invs[i])]
  /\ cart' = IF applied THEN CartUpdate(cart, invs[i].attributes) ELSE cart
  /\ last' = StepOf("update_reject", i)
  /\ UNCHANGED <<stored, listening, uncaught>>

\* The update request of an unloaded page still reaches the service.
OrphanApply(i) ==
  /\ invs[i].pc = "orphan"
  /\ invs' = [invs EXCEPT ![i] = [Returned(invs[i]) EXCEPT !.pc = "dead"]]
  /\ cart' = CartUpdate(cart, invs[i].attributes)
  /\ last' = StepOf("orphan_apply", i)
  /\ UNCHANGED <<stored, listening, uncaught>>

Next ==
  \/ \E s \in Searches, v \in Visits, ok \in BOOLEAN : PageLoad(s, v, ok)
  \/ Clear
  \/ CartChanged
  \/ \E i \in 1..Len(invs), st \in FetchStatuses : FetchResolve(i, st)
  \/ \E i \in 1..Len(invs) : FetchReject(i)
  \/ \E i \in 1..Len(invs) : JsonReject(i)
  \/ \E i \in 1..Len(invs), ok \in BOOLEAN : UpdateResolve(i, ok)
  \/ \E i \in 1..Len(invs), applied \in BOOLEAN : UpdateReject(i, applied)
  \/ \E i \in 1..Len(invs) : OrphanApply(i)

Spec == Init /\ [][Next]_vars

\* The same program started on a profile whose localStorage holds, under
\* STORAGE_KEY, content that is not JSON.
InitMalformed == InitWith(Garbage)
SpecMalformed == InitMalformed /\ [][Next]_vars

(* ============================== claims ================================ *)
HasRecord(item) == item.kind = "json"
IsSet(v) == v \notin {Null, Undefined}
\* The URL carries the parameter (URLSearchParams.has), whatever its value.
Present(search, name) == URLSearchParamsGet(search, name) # Null
Param(search, name) == URLSearchParamsGet(search, name)
\* The URL carries the parameter with a non-empty value.
Given(search, name) == Present(search, name) /\ Param(search, name) # ""

\* C1 as stated: capture() on a persisted record {code: A, orderId: B} leaves
\* code = the URL's ref value if ref is present, else A, and orderId = the
\* URL's order_id value if present, else B; with neither present the whole
\* record is unchanged. (Stated for captures whose storage write succeeds.)
C1_Original ==
  [][\A s \in Searches, v \in Visits :
       (PageLoad(s, v, TRUE) /\ HasRecord(stored)) =>
         /\ HasRecord(stored')
         /\ stored'.val.code =
              IF Present(s, REFERRAL_PARAM) THEN Param(s, REFERRAL_PARAM)
              ELSE stored.val.code
         /\ stored'.val.orderId =
              IF Present(s, ORDER_ID_PARAM) THEN Param(s, ORDER_ID_PARAM)
              ELSE stored.val.orderId
         /\ (~Present(s, REFERRAL_PARAM) /\ ~Present(s, ORDER_ID_PARAM)
               => stored' = stored)]_vars

\* C1 amended: capture() on a persisted record {code: A, orderId: B} whose
\* storage write succeeds leaves code = the URL's ref value if ref is present
\* and non-empty, else A, and orderId = the URL's order_id value if present
\* and non-empty, else B, stamped with the current time and path; when neither
\* parameter has a non-empty value, or the write fails, the whole record
\* (capturedAt and landingPage included) is unchanged.
C1_MergePerField ==
  [][\A s \in Searches, v \in Visits, ok \in BOOLEAN :
       (PageLoad(s, v, ok) /\ HasRecord(stored)) =>
         IF ok /\ (Given(s, REFERRAL_PARAM) \/ Given(s, ORDER_ID_PARAM))
         THEN /\ HasRecord(stored')
              /\ stored'.val.code =
                   IF Given(s, REFERRAL_PARAM) THEN Param(s, REFERRAL_PARAM)
                   ELSE stored.val.code
              /\ stored'.val.orderId =
                   IF Given(s, ORDER_ID_PARAM) THEN Param(s, ORDER_ID_PARAM)
                   ELSE stored.val.orderId
              /\ stored'.val.capturedAt = v.clock
              /\ stored'.val.landingPage = v.pathname
         ELSE stored' = stored]_vars

\* A capture that supplied one field has just been merged into a record that
\* held the other.
C1_Witness ==
  /\ last.op = "load" /\ last.setItemOk
  /\ last.search = << <<"ref", "store1">> >>
  /\ HasRecord(stored)
  /\ stored.val.code = "store1" /\ stored.val.orderId = "99"

\* C2: a persisted record, if one exists, has at least one of code/orderId
\* non-null; and capture() on a URL with neither parameter never creates a
\* record when none exists and never overwrites an existing one.
C2_RecordNeverEmpty ==
  /\ [](HasRecord(stored) => (IsSet(stored.val.code) \/ IsSet(stored.val.orderId)))
  /\ [][\A s \in Searches, v \in Visits, ok \in BOOLEAN :
          (PageLoad(s, v, ok)
             /\ ~Present(s, REFERRAL_PARAM) /\ ~Present(s, ORDER_ID_PARAM))
          => stored' = stored]_vars

\* A page was loaded with neither parameter and there is still no record.
C2_Witness ==
  /\ last.op = "load" /\ last.search = <<>>
  /\ stored = NoItem

\* C3: with no clear(), a field of the persisted record that has become
\* non-null stays non-null and the record is never removed: every step other
\* than clear() keeps the record and each of its set fields set.
C3_OnlyClearErases ==
  [][Clear \/ (HasRecord(stored) =>
                 /\ HasRecord(stored')
                 /\ (IsSet(stored.val.code) => IsSet(stored'.val.code))
                 /\ (IsSet(stored.val.orderId) => IsSet(stored'.val.orderId)))]_vars

\* A later visit supplied only the referral and the order id captured before
\* is still there, with the record rewritten by that visit.
C3_Witness ==
  /\ Len(invs) = 2
  /\ last.op = "load" /\ last.setItemOk
  /\ Given(last.search, REFERRAL_PARAM) /\ ~Present(last.search, ORDER_ID_PARAM)
  /\ HasRecord(stored) /\ IsSet(stored.val.orderId)
  /\ stored.val.code = Param(last.search, REFERRAL_PARAM)

\* Every tracked field that is set in record r equals the cart attribute it
\* maps to, in the cart JSON c.
FieldInSync(value, c, key) ==
  IsSet(value) => (c.hasAttributes /\ c.attributes[key] = value)
InSync(r, c) ==
  /\ FieldInSync(r.code, c, CART_ATTRIBUTE_KEY)
  /\ FieldInSync(r.orderId, c, ORDER_ID_ATTRIBUTE_KEY)

RECURSIVE TotalUpdates(_)
TotalUpdates(seq) ==
  IF seq = <<>> THEN 0 ELSE Head(seq).updates + TotalUpdates(Tail(seq))

\* C4: if, when reconcile() receives the cart state, every tracked field set
\* in the record it read equals the corresponding cart attribute, that
\* invocation returns having issued zero update requests.
C4_InSyncNoUpdate ==
  [][\A i \in 1..Len(invs), st \in FetchStatuses :
       (FetchResolve(i, st) /\ InSync(invs[i].referralData, CartResponse(st, cart).cart))
       => /\ invs'[i].pc = "done"
          /\ invs'[i].updates = 0
          /\ TotalUpdates(invs') = TotalUpdates(invs)]_vars

\* An invocation fetched the cart, found the record's fields in it and
\* returned without an update request.
C4_Witness ==
  /\ last.op = "fetch_ok"
  /\ invs[last.inv].pc = "done"
  /\ invs[last.inv].fetches = 1 /\ invs[last.inv].updates = 0
  /\ HasRecord(stored) /\ InSync(stored.val, cart)

\* C5: if the cart-state fetch succeeded and at least one tracked field set
\* in the record differs from the corresponding cart attribute (the attribute
\* or the whole attributes mapping being absent included), reconcile() issues
\* exactly one update request, even when the other field already matches.
C5_DivergenceOneUpdate ==
  [][\A i \in 1..Len(invs) :
       (FetchResolve(i, "ok") /\ ~InSync(invs[i].referralData, cart))
       => /\ invs'[i].pc = "update"
          /\ invs'[i].updates = 1
          /\ TotalUpdates(invs') = TotalUpdates(invs) + 1]_vars

\* Partial match: the cart already holds the record's code but not its order
\* id, and the invocation has sent its update.
C5_Witness ==
  /\ last.op = "fetch_ok"
  /\ invs[last.inv].pc = "update" /\ invs[last.inv].updates = 1
  /\ invs[last.inv].referralData.code = "store1"
  /\ invs[last.inv].referralData.orderId = "99"
  /\ cart.hasAttributes
  /\ cart.attributes[CART_ATTRIBUTE_KEY] = "store1"
  /\ cart.attributes[ORDER_ID_ATTRIBUTE_KEY] = Undefined

\* The JSON payload has the key (with whatever value, null included).
HasKey(attributes, key) == attributes[key] # Undefined

\* The shape of an update request's payload for the record r it was built from.
PayloadShape(attributes, r) ==
  /\ HasKey(attributes, LANDING_PAGE_ATTRIBUTE_KEY)
  /\ HasKey(attributes, CAPTURED_AT_ATTRIBUTE_KEY)
  /\ attributes[LANDING_PAGE_ATTRIBUTE_KEY] = r.landingPage
  /\ attributes[CAPTURED_AT_ATTRIBUTE_KEY] = r.capturedAt
  /\ (HasKey(attributes, CART_ATTRIBUTE_KEY) <=> IsSet(r.code))
  /\ (IsSet(r.code) => attributes[CART_ATTRIBUTE_KEY] = r.code)
  /\ (HasKey(attributes, ORDER_ID_ATTRIBUTE_KEY) <=> IsSet(r.orderId))
  /\ (IsSet(r.orderId) => attributes[ORDER_ID_ATTRIBUTE_KEY] = r.orderId)

\* C6: every update request carries both metadata attributes, the code key
\* if and only if the record's code is set (with that code), and the order-id
\* key if and only if the record's orderId is set (with that order id), the
\* record being the one the invocation read when it started.
C6_PayloadShape ==
  /\ [](\A i \in 1..Len(invs) :
          invs[i].pc \in {"update", "orphan"}
            => PayloadShape(invs[i].attributes, invs[i].referralData))
  /\ [][(Len(invs') = Len(invs) + 1 /\ invs'[Len(invs')].pc = "fetch")
          => invs'[Len(invs')].referralData = stored'.val]_vars

\* Record {code: "store1", orderId: null} against cart attributes {}: the one
\* update sent has the code key, the two metadata keys and no order-id key.
C6_Witness ==
  /\ last.op = "fetch_ok"
  /\ invs[last.inv].pc = "update" /\ invs[last.inv].updates = 1
  /\ cart.hasAttributes /\ cart.attributes = NoAttributes
  /\ invs[last.inv].referralData.code = "store1"
  /\ invs[last.inv].referralData.orderId = Null
  /\ invs[last.inv].attributes[CART_ATTRIBUTE_KEY] = "store1"
  /\ ~HasKey(invs[last.inv].attributes, ORDER_ID_ATTRIBUTE_KEY)
  /\ HasKey(invs[last.inv].attributes, LANDING_PAGE_ATTRIBUTE_KEY)
  /\ HasKey(invs[last.inv].attributes, CAPTURED_AT_ATTRIBUTE_KEY)

\* The record a capture writes when nothing usable is stored.
FreshRecord(s, v) ==
  JSONstringify(
    [code |-> IF Given(s, REFERRAL_PARAM) THEN Param(s, REFERRAL_PARAM) ELSE Null,
     orderId |-> IF Given(s, ORDER_ID_PARAM) THEN Param(s, ORDER_ID_PARAM) ELSE Null,
     capturedAt |-> v.clock, landingPage |-> v.pathname])

\* C7 as stated: clear() followed by capture() on a URL with ref=X and no
\* order_id produces the record {code: X, orderId: null, ...}. (Stated for
\* captures whose storage write succeeds.)
C7_Original ==
  [][\A s \in Searches, v \in Visits :
       (last.op = "clear" /\ PageLoad(s, v, TRUE)
          /\ Present(s, REFERRAL_PARAM) /\ ~Present(s, ORDER_ID_PARAM))
       => /\ HasRecord(stored')
          /\ stored'.val.code = Param(s, REFERRAL_PARAM)
          /\ stored'.val.orderId = Null]_vars

\* C7 amended: clear() followed by capture() on a URL with ref=X and no
\* order_id produces, when X is non-empty and the storage write succeeds, the
\* record {code: X, orderId: null, capturedAt: now, landingPage: current
\* path}; when X is empty or the write fails there is no record afterwards.
\* In no case does a value from before the clear survive.
C7_ClearThenCapture ==
  [][\A s \in Searches, v \in Visits, ok \in BOOLEAN :
       (last.op = "clear" /\ PageLoad(s, v, ok)
          /\ Present(s, REFERRAL_PARAM) /\ ~Present(s, ORDER_ID_PARAM))
       => stored' = IF ok /\ Given(s, REFERRAL_PARAM) THEN FreshRecord(s, v)
                    ELSE NoItem]_vars

\* The first page captured order id 99 and its update request is still on the
\* wire; the record was cleared and the next page's ref=store1 gave a record
\* without any order id.
C7_Witness ==
  /\ Len(invs) = 2 /\ invs[1].pc = "orphan"
  /\ invs[1].referralData.orderId = "99"
  /\ last.op = "load" /\ last.search = << <<"ref", "store1">> >>
  /\ HasRecord(stored)
  /\ stored.val.code = "store1" /\ stored.val.orderId = Null

\* C8 (localStorage initially holding content that is not JSON): reading the
\* record gives the absent value and nothing is raised; reconcile() and
\* getReferralCode() behave as with no record (no request, null); a capture
\* with something to store whose write succeeds writes a record built from
\* the URL's values alone, and an empty capture leaves the content alone.
C8_MalformedIsAbsent ==
  /\ [](stored = Garbage =>
          /\ getStoredReferral(stored) = NullResult
          /\ getReferralCode(stored) = Null)
  /\ [](~uncaught)
  /\ [][(stored = Garbage /\ CartChanged)
          => invs'[Len(invs')] = StartInvocation(NoItem)]_vars
  /\ [][\A s \in Searches, v \in Visits, ok \in BOOLEAN :
          (stored = Garbage /\ PageLoad(s, v, ok))
          => /\ stored' = IF ~(Given(s, REFERRAL_PARAM) \/ Given(s, ORDER_ID_PARAM))
                               \/ ~ok
                          THEN Garbage ELSE FreshRecord(s, v)
             /\ (stored' = Garbage
                   => invs'[Len(invs')] = StartInvocation(NoItem))]_vars

\* The first page load, on the malformed content, captured ref=store1 and
\* the record holds exactly that.
C8_Witness ==
  /\ Len(invs) = 1 /\ last.op = "load"
  /\ last.search = << <<"ref", "store1">> >>
  /\ HasRecord(stored)
  /\ stored.val.code = "store1" /\ stored.val.orderId = Null
  /\ invs[1].pc = "fetch" /\ invs[1].referralData = stored.val

\* C9 as stated: a cart-state fetch that fails or comes back with a
\* non-success status is followed by no update request in that invocation,
\* which returns with nothing propagated to its caller.
C9_FailedFetchNoUpdate ==
  [][\A i \in 1..Len(invs) :
       (FetchReject(i) \/ JsonReject(i) \/ FetchResolve(i, "error_json"))
       => /\ invs'[i].pc = "done"
          /\ invs'[i].updates = 0
          /\ TotalUpdates(invs') = TotalUpdates(invs)
          /\ ~uncaught']_vars

\* C10: each invocation issues at most one cart-state fetch and at most one
\* update request, the update only after its own fetch has returned; so the
\* update requests issued so far never outnumber the triggers so far (one per
\* page load plus one per cart:update event).
C10_NoRetry ==
  /\ \A i \in 1..Len(invs) :
       /\ invs[i].fetches <= 1
       /\ invs[i].updates <= 1
       /\ invs[i].updates <= invs[i].fetches
       /\ (invs[i].pc = "fetch" => invs[i].updates = 0)
  /\ TotalUpdates(invs) <= Len(invs)

\* Two triggers, each of which went on to one update request, the first
\* having failed at the update.
C10_Witness ==
  /\ Len(invs) = 2
  /\ invs[1].pc = "done" /\ invs[1].updates = 1
  /\ invs[2].pc = "update" /\ invs[2].updates = 1
  /\ TotalUpdates(invs) = 2

\* C11: if the storage write inside capture() fails, capture() returns
\* without raising, the persisted record is exactly what it was, and init()
\* still installs the cart:update listener and runs the startup reconcile().
C11_WriteFailureSwallowed ==
  [][\A s \in Searches, v \in Visits :
       (PageLoad(s, v, FALSE) /\ Captures(s))
       => /\ stored' = stored
          /\ uncaught' = uncaught
          /\ listening'
          /\ Len(invs') = Len(invs) + 1
          /\ invs'[Len(invs')] = StartInvocation(stored)]_vars

\* A page load with order_id=99 whose write failed: the record still has its
\* code and no order id, the listener is installed and the startup reconcile
\* is waiting for the cart with the record as it was.
C11_Witness ==
  /\ last.op = "load" /\ ~last.setItemOk
  /\ last.search = << <<"order_id", "99">> >>
  /\ HasRecord(stored)
  /\ stored.val.code = "store1" /\ stored.val.orderId = Null
  /\ listening /\ ~uncaught
  /\ invs[last.inv].pc = "fetch" /\ invs[last.inv].referralData = stored.val

(* ---------- a profile holding a record with neither field set --------- *)
\* localStorage is shared by every script of the origin: a record whose code
\* and orderId are both null, which this program never writes itself.
UnsetRecord ==
  JSONstringify([code |-> Null, orderId |-> Null,
                 capturedAt |-> "2026-01-05T10:00:00.000Z", landingPage |-> "/"])
InitUnset == \E item \in {NoItem, UnsetRecord} : InitWith(item)
SpecUnset == InitUnset /\ [][Next]_vars

NothingToSync(item) ==
  ~HasRecord(item) \/ (~IsSet(item.val.code) /\ ~IsSet(item.val.orderId))
NoRequest(inv) == inv.pc = "done" /\ inv.fetches = 0 /\ inv.updates = 0

\* C12: reconcile() called when no record exists, or when the record has
\* neither code nor orderId set, issues no cart-state fetch and no update
\* request and changes no state (whether called by the cart:update listener
\* or at startup).
C12_NothingStoredNoOp ==
  /\ [][(CartChanged /\ NothingToSync(stored))
          => /\ NoRequest(invs'[Len(invs')])
             /\ SubSeq(invs', 1, Len(invs)) = invs
             /\ stored' = stored /\ cart' = cart /\ uncaught' = uncaught]_vars
  /\ [][\A s \in Searches, v \in Visits, ok \in BOOLEAN :
          (PageLoad(s, v, ok) /\ NothingToSync(stored'))
          => /\ NoRequest(invs'[Len(invs')])
             /\ cart' = cart /\ uncaught' = uncaught]_vars

\* A cart:update event arrived with the record holding neither field, and
\* the invocation it started returned without a request.
C12_Witness ==
  /\ last.op = "cart:update"
  /\ stored = UnsetRecord
  /\ NoRequest(invs[last.inv])

Suspended(inv) == inv.pc \in {"fetch", "update"}

\* C13: no step of reconcile() writes the persisted record, however many
\* invocations overlap and however they interleave with cart-changed
\* notifications: the record changes only in a step of capture() (a page
\* load) or clear(), and a page load leaves exactly what capture() wrote.
C13_ReconcileKeepsRecord ==
  /\ [][last'.op \notin {"load", "clear"} => stored' = stored]_vars
  /\ [][CartChanged => stored' = stored]_vars
  /\ [][\A s \in Searches, v \in Visits, ok \in BOOLEAN :
          PageLoad(s, v, ok)
          => stored' = captureReferralFromURL(stored, s, v.clock, v.pathname, ok)]_vars

\* Two invocations overlapped, the first one's update has been applied while
\* the second is still suspended, and the record is the one both read.
C13_Witness ==
  /\ Len(invs) = 2
  /\ last.op = "update_ok" /\ last.inv = 1
  /\ invs[1].updates = 1
  /\ Suspended(invs[2])
  /\ HasRecord(stored) /\ stored.val = invs[2].referralData
  /\ IsSet(stored.val.code)

\* C14: overlapping reconciliations are not serialized. A cart-changed
\* notification arriving while another invocation is suspended starts an
\* invocation of its own, which fetches the cart; and when an invocation
\* receives the cart while another one, which read the same record, has its
\* update request pending and the cart still diverges, it issues an update
\* request with the same payload.
C14_OverlapNotSerialized ==
  /\ [][(CartChanged /\ ~NothingToSync(stored)
           /\ \E i \in 1..Len(invs) : Suspended(invs[i]))
          => /\ invs'[Len(invs')].pc = "fetch"
             /\ invs'[Len(invs')].fetches = 1
             /\ SubSeq(invs', 1, Len(invs)) = invs]_vars
  /\ [][\A i, j \in 1..Len(invs) :
          (/\ i # j
           /\ FetchResolve(j, "ok")
           /\ invs[i].pc = "update"
           /\ invs[i].referralData = invs[j].referralData
           /\ ~InSync(invs[j].referralData, cart))
          => /\ invs'[j].pc = "update"
             /\ invs'[j].updates = 1
             /\ invs'[j].attributes = invs[i].attributes
             /\ invs'[i] = invs[i]]_vars

\* Both invocations have an update request pending, with the same payload.
C14_Witness ==
  /\ Len(invs) = 2
  /\ invs[1].pc = "update" /\ invs[2].pc = "update"
  /\ invs[1].updates = 1 /\ invs[2].updates = 1
  /\ invs[1].attributes = invs[2].attributes
  /\ HasKey(invs[2].attributes, CART_ATTRIBUTE_KEY)

\* C15: on a page load whose URL carries ref=X, with a successful storage
\* write, the listener is installed and the startup reconcile() is suspended
\* on its fetch holding the record capture() has just written, whose code is
\* X; on divergence the update request it sends carries X.
C15_CaptureBeforeStartupSync ==
  /\ [][\A s \in Searches, v \in Visits :
          (PageLoad(s, v, TRUE) /\ Given(s, REFERRAL_PARAM))
          => /\ listening'
             /\ HasRecord(stored')
             /\ invs'[Len(invs')].pc = "fetch"
             /\ invs'[Len(invs')].referralData = stored'.val
             /\ invs'[Len(invs')].referralData.code = Param(s, REFERRAL_PARAM)]_vars
  /\ [][\A i \in 1..Len(invs) :
          (FetchResolve(i, "ok") /\ ~InSync(invs[i].referralData, cart)
             /\ IsSet(invs[i].referralData.code))
          => /\ invs'[i].pc = "update"
             /\ invs'[i].attributes[CART_ATTRIBUTE_KEY] = invs[i].referralData.code]_vars

\* The cart holds the code of an earlier visit, the page was loaded with
\* another ref, and the startup invocation's update request carries that one.
C15_Witness ==
  /\ Len(invs) = 2
  /\ last.op = "fetch_ok" /\ last.inv = 2
  /\ invs[2].pc = "update"
  /\ invs[2].attributes[CART_ATTRIBUTE_KEY] = "store2"
  /\ cart.attributes[CART_ATTRIBUTE_KEY] = "store1"
  /\ HasRecord(stored) /\ stored.val.code = "store2"
  /\ listening

\* C17: the payload of an update request is built from the record read at
\* the start of the invocation. The invocation keeps that record while it is
\* suspended, whatever clear() or a later capture() does to the stored one,
\* and on divergence its request carries the attributes built from it.
C17_PayloadFromRecordAtStart ==
  /\ [][(CartChanged /\ ~NothingToSync(stored))
          => invs'[Len(invs')].referralData = stored.val]_vars
  /\ [][\A i \in 1..Len(invs) :
          (invs[i].pc = "fetch" /\ invs'[i].pc \in {"fetch", "update"})
          => invs'[i].referralData = invs[i].referralData]_vars
  /\ [][\A i \in 1..Len(invs) :
          (FetchResolve(i, "ok") /\ ~InSync(invs[i].referralData, cart))
          => /\ invs'[i].pc = "update"
             /\ invs'[i].attributes = BuildAttributes(invs[i].referralData)]_vars
  /\ [][\A i \in 1..Len(invs) :
          (invs[i].pc \in {"update", "orphan"} /\ invs'[i].pc \in {"update", "orphan"})
          => invs'[i].attributes = invs[i].attributes]_vars

\* The record was cleared while an invocation was suspended on its fetch, and
\* that invocation has now sent an update request carrying the cleared code.
C17_Witness ==
  /\ last.op = "fetch_ok"
  /\ stored = NoItem
  /\ invs[last.inv].pc = "update"
  /\ invs[last.inv].attributes[CART_ATTRIBUTE_KEY] = "store1"
  /\ ~AttributeIs(cart, CART_ATTRIBUTE_KEY, "store1")

\* The invocation syncReferralToCart would be, had it read record r and
\* received cart c.
Reconciled(r, c) ==
  AfterCartJson([NotStarted EXCEPT !.referralData = r, !.fetches = 1], c)

\* C18: reconciliation is a fixpoint. Once the service has applied an update
\* request, the cart agrees with the record the request was built from, and
\* an invocation reading that record and receiving that cart issues no
\* update request.
C18_Fixpoint ==
  /\ [][\A i \in 1..Len(invs) :
          UpdateResolve(i, TRUE)
          => /\ InSync(invs[i].referralData, cart')
             /\ Reconciled(invs[i].referralData, cart').pc = "done"
             /\ Reconciled(invs[i].referralData, cart').updates = 0]_vars
  /\ [][\A j \in 1..Len(invs) :
          (/\ FetchResolve(j, "ok")
           /\ \E i \in 1..Len(invs) : i # j /\ invs[i].pc = "done" /\ invs[i].updates = 1
           /\ InSync(invs[j].referralData, cart))
          => invs'[j].pc = "done" /\ invs'[j].updates = 0]_vars

\* A first invocation's update was applied, and the next one, reading the
\* same record, fetched the cart and returned without an update request.
C18_Witness ==
  /\ Len(invs) = 2
  /\ invs[1].pc = "done" /\ invs[1].updates = 1
  /\ last.op = "fetch_ok" /\ last.inv = 2
  /\ invs[2].pc = "done" /\ invs[2].fetches = 1 /\ invs[2].updates = 0
  /\ HasRecord(stored) /\ IsSet(stored.val.code)
  /\ InSync(stored.val, cart)

MetadataDiffers(r, c) ==
  \/ ~AttributeIs(c, CAPTURED_AT_ATTRIBUTE_KEY, r.capturedAt)
  \/ ~AttributeIs(c, LANDING_PAGE_ATTRIBUTE_KEY, r.landingPage)

\* C19: the decision to write depends only on the tracked fields. A capture
\* of the values already stored rewrites capturedAt and landingPage in
\* storage; and an invocation that finds every set tracked field in the cart
\* issues no update request even though the record's capturedAt or
\* landingPage differ from the cart's metadata attributes.
C19_MetadataNotCompared ==
  /\ [][\A s \in Searches, v \in Visits :
          (/\ PageLoad(s, v, TRUE) /\ Captures(s)
           /\ HasRecord(stored)
           /\ Given(s, REFERRAL_PARAM) => Param(s, REFERRAL_PARAM) = stored.val.code
           /\ Given(s, ORDER_ID_PARAM) => Param(s, ORDER_ID_PARAM) = stored.val.orderId)
          => /\ stored'.val.code = stored.val.code
             /\ stored'.val.orderId = stored.val.orderId
             /\ stored'.val.capturedAt = v.clock
             /\ stored'.val.landingPage = v.pathname]_vars
  /\ [][\A j \in 1..Len(invs) :
          (/\ FetchResolve(j, "ok")
           /\ InSync(invs[j].referralData, cart)
           /\ MetadataDiffers(invs[j].referralData, cart))
          => /\ invs'[j].pc = "done" /\ invs'[j].updates = 0
             /\ cart' = cart]_vars

\* The same referral was captured again on a later visit: storage holds the
\* later capturedAt, the cart still the earlier one, and the invocation
\* returned without an update request.
C19_Witness ==
  /\ last.op = "fetch_ok"
  /\ invs[last.inv].pc = "done" /\ invs[last.inv].updates = 0
  /\ HasRecord(stored) /\ InSync(stored.val, cart)
  /\ HasKey(cart.attributes, CAPTURED_AT_ATTRIBUTE_KEY)
  /\ cart.attributes[CAPTURED_AT_ATTRIBUTE_KEY] # stored.val.capturedAt
  /\ cart.attributes[LANDING_PAGE_ATTRIBUTE_KEY] # stored.val.landingPage

(* ------------- triggers without end on a record that stays ------------ *)
\* A returning visitor: the record was captured on an earlier visit, and from
\* here on no URL carries a parameter and clearReferral is not called, so the
\* record stays as it is.
InitLive ==
  \E s \in Searches, v \in Visits :
    /\ Captures(s)
    /\ InitWith(captureReferralFromURL(NoItem, s, v.clock, v.pathname, TRUE))

\* The frames of the invocations that have returned are dropped.
Forget ==
  /\ \E i \in 1..Len(invs) : invs[i].pc \in {"done", "dead"}
  /\ invs' = SelectSeq(invs, LAMBDA inv : inv.pc \notin {"done", "dead"})
  /\ last' = StepOf("forget", 0)
  /\ UNCHANGED <<stored, cart, listening, uncaught>>

\* The two triggers of syncReferralToCart: init() and the 'cart:update' event.
Trigger ==
  \/ \E v \in Visits : PageLoad(<<>>, v, TRUE)
  \/ CartChanged
SuccessfulFetch == \E i \in 1..Len(invs) : FetchResolve(i, "ok")
SuccessfulUpdate == \E i \in 1..Len(invs) : UpdateResolve(i, TRUE)
ErrorFetch == \E i \in 1..Len(invs) : FetchResolve(i, "error_json")
OrphanApplied == \E i \in 1..Len(invs) : OrphanApply(i)
\* The outcomes caught at the catch clause, and an update answered not ok.
Failure ==
  \/ \E i \in 1..Len(invs) : FetchReject(i)
  \/ \E i \in 1..Len(invs) : JsonReject(i)
  \/ \E i \in 1..Len(invs) : UpdateResolve(i, FALSE)
  \/ \E i \in 1..Len(invs), applied \in BOOLEAN : UpdateReject(i, applied)

NextLive ==
  \/ Trigger
  \/ SuccessfulFetch
  \/ SuccessfulUpdate
  \/ ErrorFetch
  \/ OrphanApplied
  \/ Failure
  \/ Forget

\* Weak fairness on the triggers and on the successful responses (and on the
\* bookkeeping: a request on the wire of an unloaded page arrives).
SpecLive ==
  /\ InitLive /\ [][NextLive]_vars
  /\ WF_vars(Trigger)
  /\ WF_vars(SuccessfulFetch)
  /\ WF_vars(SuccessfulUpdate)
  /\ WF_vars(OrphanApplied)
  /\ WF_vars(Forget)

Synced == HasRecord(stored) /\ InSync(stored.val, cart)

\* C16: with a record that has a tracked field set and stays unchanged, with
\* triggers that keep occurring and successful responses weakly fair, if the
\* failures are finitely many then eventually every tracked field set in the
\* record equals the cart attribute it maps to, and stays so.
C16_EventuallySynced == (<>[][~Failure]_vars) => <>[]Synced

\* A first invocation failed on its fetch; the next trigger's invocation
\* found the divergence, its update was applied and the cart agrees.
C16_Witness ==
  /\ Len(invs) = 2
  /\ invs[1].pc = "done" /\ invs[1].fetches = 1 /\ invs[1].updates = 0
  /\ last.op = "update_ok" /\ last.inv = 2
  /\ invs[2].updates = 1
  /\ Synced

====
